---- MODULE Spec2Model ----
(***************************************************************************)
(* SegmentMap<K, V>: a map from pairwise non-overlapping half-open         *)
(* segments [start, end) of an ordered key space to values, stored as an   *)
(* unbalanced binary search tree (src/src/segment_map.rs).                 *)
(*                                                                         *)
(* The container, its iterators and its tests are in src/src/segment_map.rs*)
(* The node type it delegates to (crate::segment_map_node::SegmentMapNode) *)
(* and crate::Segment are not among the sources; they are modelled from    *)
(* spec.md sections 3 and 4, constrained by the tests of segment_map.rs.   *)
(***************************************************************************)
EXTENDS Integers, Sequences, FiniteSets, TLC

(* ---------------- bounds of the model ---------------- *)

\* keys are 0 .. MaxKey
MaxKey == 3
\* values are 0 .. MaxValue
MaxValue == 1
\* an operation whose result would hold more nodes than this is not taken
MaxNodes == 3

Keys == 0 .. MaxKey
Values == 0 .. MaxValue

(* ---------------- Option<T> ---------------- *)

\* Option<T> is a sequence of length 0 (None) or 1 (Some(x)).
None == << >>
Some(x) == << x >>
IsSome(o) == o # None

(* ---------------- Segment<K> ---------------- *)

Segment(s, e) == [start |-> s, end |-> e]

\* the segments a caller can build over the bounded key space (start <= end)
Segments == { Segment(p[1], p[2]) : p \in { q \in Keys \X Keys : q[1] <= q[2] } }

IsEmptySegment(seg) == seg.start = seg.end

\* k lies in the half-open range
SegmentContains(seg, k) == seg.start <= k /\ k < seg.end

\* a lies entirely before b: a.end <= b.start. Two equal point markers are
\* neither before nor after each other (test_insert_multiple_empty).
SegBefore(a, b) == a.end <= b.start /\ a # b

\* a lies entirely after b: a.start >= b.end.
SegAfter(a, b) == a.start >= b.end /\ a # b

(* ---------------- SegmentMapNode<K, V> ---------------- *)

\* one stored entry with two owned optional subtrees
Node(seg, v, l, r) == [segment |-> seg, value |-> v, left |-> l, right |-> r]

Leaf(seg, v) == Node(seg, v, None, None)

RECURSIVE Size(_)
\* number of nodes of an optional subtree
Size(t) == IF t = None THEN 0 ELSE 1 + Size(t[1].left) + Size(t[1].right)

(* ---------------- the closures passed to update / update_entry ---------------- *)

\* A closure F: Fn(&Segment<K>, Option<V>) -> Option<V> is a record naming what
\* it computes; update's closures Fn(Option<V>) -> Option<V> are the kinds that
\* do not read the segment.
FnNone == [kind |-> "none", v |-> 0]
FnConst(x) == [kind |-> "const", v |-> x]
FnId == [kind |-> "id", v |-> 0]
FnSucc == [kind |-> "succ", v |-> 0]
FnWidth == [kind |-> "width", v |-> 0]

\* closures of update: |_| None, |_| Some(x), |old| old, and
\* |old| Some(match old { None => 0, Some(v) => (v + 1) % (MaxValue + 1) })
ValueFns == { FnNone, FnId, FnSucc } \cup { FnConst(x) : x \in Values }

\* closures of update_entry: the above with the segment ignored, and
\* |segment, _| Some((segment.end - segment.start) % (MaxValue + 1))
EntryFns == ValueFns \cup { FnWidth }

\* the call f(seg, old)
Apply(f, seg, old) ==
    CASE f.kind = "none" -> None
      [] f.kind = "const" -> Some(f.v)
      [] f.kind = "id" -> old
      [] f.kind = "succ" -> IF old = None THEN Some(0) ELSE Some((old[1] + 1) % (MaxValue + 1))
      [] f.kind = "width" -> Some((seg.end - seg.start) % (MaxValue + 1))

\* one recorded call of a closure
Call(seg, old) == [segment |-> seg, old |-> old]

(* ---------------- SegmentMapNode: lookup and insert ---------------- *)

RECURSIVE NodeGetEntry(_, _)
\* binary search for the entry whose range contains k
NodeGetEntry(n, k) ==
    IF k < n.segment.start
    THEN (IF n.left = None THEN None ELSE NodeGetEntry(n.left[1], k))
    ELSE IF k >= n.segment.end
    THEN (IF n.right = None THEN None ELSE NodeGetEntry(n.right[1], k))
    ELSE Some(<< n.segment, n.value >>)

NodeGet(n, k) ==
    LET e == NodeGetEntry(n, k) IN IF e = None THEN None ELSE Some(e[1][2])

RECURSIVE NodeInsert(_, _, _)
\* strict insertion below n: [ok |-> TRUE, node |-> n with one new leaf], or
\* [ok |-> FALSE, node |-> n] when the descent meets a node that seg is
\* neither entirely before nor entirely after (the panic).
NodeInsert(n, seg, v) ==
    IF SegBefore(seg, n.segment)
    THEN IF n.left = None
         THEN [ok |-> TRUE, node |-> [n EXCEPT !.left = Some(Leaf(seg, v))]]
         ELSE LET r == NodeInsert(n.left[1], seg, v)
              IN [ok |-> r.ok, node |-> [n EXCEPT !.left = Some(r.node)]]
    ELSE IF SegAfter(seg, n.segment)
    THEN IF n.right = None
         THEN [ok |-> TRUE, node |-> [n EXCEPT !.right = Some(Leaf(seg, v))]]
         ELSE LET r == NodeInsert(n.right[1], seg, v)
              IN [ok |-> r.ok, node |-> [n EXCEPT !.right = Some(r.node)]]
    ELSE [ok |-> FALSE, node |-> n]

RECURSIVE NodeSpan(_)
\* [start of the leftmost node, end of the rightmost node)
NodeSpan(n) ==
    LET lo == IF n.left = None THEN n.segment.start ELSE NodeSpan(n.left[1]).start
        hi == IF n.right = None THEN n.segment.end ELSE NodeSpan(n.right[1]).end
    IN Segment(lo, hi)

(* ---------------- SegmentMapNode: the split/transform algorithm ---------------- *)

Max(a, b) == IF a >= b THEN a ELSE b
Min(a, b) == IF a <= b THEN a ELSE b

RECURSIVE Join(_, _)
\* join of two optional subtrees, every entry of l before every entry of r:
\* r is attached at the end of l's right spine
Join(l, r) ==
    IF l = None THEN r
    ELSE IF r = None THEN l
    ELSE Some([l[1] EXCEPT !.right = Join(l[1].right, r)])

RECURSIVE TreeUpdateEntry(_, _, _, _)
\* The transform of an optional subtree t by target T and closure f, where W
\* is the part of T that lies between the segments of the ancestors of t:
\* [tree |-> the resulting optional subtree, calls |-> the calls of f, in key order].
\*  - no subtree: W is a gap, offered to f with no prior value (an empty W is
\*    offered only when the target itself is zero-width);
\*  - T entirely before / after the node: the node is kept, T goes to that child;
\*  - otherwise the node is split into left remainder, middle and right
\*    remainder; the left child is transformed by the same T when T starts
\*    before the node, the right child when T ends after it, and the pieces
\*    are joined in order.
TreeUpdateEntry(t, T, W, f) ==
    IF t = None
    THEN IF W.start < W.end \/ IsEmptySegment(T)
         THEN LET x == Apply(f, W, None)
              IN [tree |-> IF x = None THEN None ELSE Some(Leaf(W, x[1])),
                  calls |-> << Call(W, None) >>]
         ELSE [tree |-> None, calls |-> << >>]
    ELSE LET n == t[1]
             s == n.segment
         IN IF SegBefore(T, s)
            THEN LET l == TreeUpdateEntry(n.left, T, W, f)
                 IN [tree |-> Some([n EXCEPT !.left = l.tree]), calls |-> l.calls]
            ELSE IF SegAfter(T, s)
            THEN LET r == TreeUpdateEntry(n.right, T, W, f)
                 IN [tree |-> Some([n EXCEPT !.right = r.tree]), calls |-> r.calls]
            ELSE LET lres == IF T.start < s.start
                             THEN TreeUpdateEntry(n.left, T, Segment(W.start, s.start), f)
                             ELSE [tree |-> n.left, calls |-> << >>]
                     rres == IF T.end > s.end
                             THEN TreeUpdateEntry(n.right, T, Segment(s.end, W.end), f)
                             ELSE [tree |-> n.right, calls |-> << >>]
                     lrem == IF s.start < T.start
                             THEN Some(Leaf(Segment(s.start, T.start), n.value))
                             ELSE None
                     rrem == IF s.end > T.end
                             THEN Some(Leaf(Segment(T.end, s.end), n.value))
                             ELSE None
                     mseg == Segment(Max(s.start, T.start), Min(s.end, T.end))
                     m == Apply(f, mseg, Some(n.value))
                     mid == IF m = None THEN None ELSE Some(Leaf(mseg, m[1]))
                 IN [tree |-> Join(Join(Join(Join(lres.tree, lrem), mid), rrem), rres.tree),
                     calls |-> lres.calls \o << Call(mseg, Some(n.value)) >> \o rres.calls]

\* SegmentMapNode::update_entry(self, segment, value) -> Option<SegmentMapNode>
NodeUpdateEntry(n, T, f) == TreeUpdateEntry(Some(n), T, T, f)

\* SegmentMapNode::update: update_entry with the sub-range ignored
NodeUpdate(n, T, g) == NodeUpdateEntry(n, T, g)

\* SegmentMapNode::remove: the transform whose closure never yields a value
NodeRemove(n, T) == NodeUpdateEntry(n, T, FnNone).tree

(* ---------------- SegmentMap<K, V> (src/src/segment_map.rs) ---------------- *)

\* SegmentMap::new: no root
MapNew == None

\* SegmentMap::is_empty
MapIsEmpty(root) == root = None

\* SegmentMap::clear
MapClear(root) == None

\* span that answers with the segment of the root node
MapSpanOfRoot(root) == IF root = None THEN None ELSE Some(root[1].segment)

\* SegmentMap::span
MapSpan(root) == IF root = None THEN None ELSE Some(NodeSpan(root[1]))

\* get that looks at the root's entry only
MapGetAtRoot(root, k) ==
    IF root # None /\ SegmentContains(root[1].segment, k)
    THEN Some(root[1].value)
    ELSE None

\* SegmentMap::get
MapGet(root, k) == IF root = None THEN None ELSE NodeGet(root[1], k)

\* get_entry that answers with the root's entry without searching
MapGetEntryRootOnly(root, k) ==
    IF root = None THEN None ELSE Some(<< root[1].segment, root[1].value >>)

\* SegmentMap::get_entry
MapGetEntry(root, k) == IF root = None THEN None ELSE NodeGetEntry(root[1], k)

\* contains_key that answers for the span of the map, gaps included
MapContainsKeyInSpan(root, k) ==
    root # None /\ SegmentContains(NodeSpan(root[1]), k)

\* SegmentMap::contains_key
MapContainsKey(root, k) == IsSome(MapGetEntry(root, k))

\* insert that puts the new node above the old root without comparing segments
MapInsertUnchecked(root, seg, v) ==
    [root |-> Some(Node(seg, v, root, None)), panicked |-> FALSE]

\* insert that overwrites the value of a root holding the same segment
MapInsertOverwrite(root, seg, v) ==
    IF root # None /\ root[1].segment = seg
    THEN [root |-> Some([root[1] EXCEPT !.value = v]), panicked |-> FALSE]
    ELSE IF root # None
    THEN LET r == NodeInsert(root[1], seg, v)
         IN [root |-> Some(r.node), panicked |-> ~r.ok]
    ELSE [root |-> Some(Node(seg, v, None, None)), panicked |-> FALSE]

\* insert that takes the root out of the map before descending: a panic
\* unwinds with the root gone
MapInsertTake(root, seg, v) ==
    IF root # None
    THEN LET r == NodeInsert(root[1], seg, v)
         IN [root |-> IF r.ok THEN Some(r.node) ELSE None, panicked |-> ~r.ok]
    ELSE [root |-> Some(Node(seg, v, None, None)), panicked |-> FALSE]

\* insert that looks at the root only: the new leaf takes the place of
\* whatever child the root had on that side
MapInsertReplacesChild(root, seg, v) ==
    IF root # None
    THEN IF SegBefore(seg, root[1].segment)
         THEN [root |-> Some([root[1] EXCEPT !.left = Some(Leaf(seg, v))]), panicked |-> FALSE]
         ELSE IF SegAfter(seg, root[1].segment)
         THEN [root |-> Some([root[1] EXCEPT !.right = Some(Leaf(seg, v))]), panicked |-> FALSE]
         ELSE [root |-> root, panicked |-> TRUE]
    ELSE [root |-> Some(Node(seg, v, None, None)), panicked |-> FALSE]

\* insert that never refuses a segment holding no key, as it overlaps nothing:
\* where the descent fails the segment is stored last
MapInsertAllowsEmpty(root, seg, v) ==
    IF root # None
    THEN LET r == NodeInsert(root[1], seg, v)
         IN IF r.ok \/ seg.start # seg.end
            THEN [root |-> Some(r.node), panicked |-> ~r.ok]
            ELSE [root |-> Join(root, Some(Leaf(seg, v))), panicked |-> FALSE]
    ELSE [root |-> Some(Node(seg, v, None, None)), panicked |-> FALSE]

\* insert that makes the new node the root and hangs the old tree below it,
\* on the side the old root's segment lies
MapInsertAtRoot(root, seg, v) ==
    IF root # None
    THEN IF SegBefore(seg, root[1].segment)
         THEN [root |-> Some(Node(seg, v, None, root)), panicked |-> FALSE]
         ELSE IF SegAfter(seg, root[1].segment)
         THEN [root |-> Some(Node(seg, v, root, None)), panicked |-> FALSE]
         ELSE [root |-> root, panicked |-> TRUE]
    ELSE [root |-> Some(Node(seg, v, None, None)), panicked |-> FALSE]

\* SegmentMap::insert: descends from the root borrowed in place, or makes the
\* first node. [root |-> the root afterwards, panicked |-> whether it panicked]
MapInsert(root, seg, v) ==
    IF root # None
    THEN LET r == NodeInsert(root[1], seg, v)
         IN [root |-> Some(r.node), panicked |-> ~r.ok]
    ELSE [root |-> Some(Node(seg, v, None, None)), panicked |-> FALSE]

RECURSIVE MapExtendContinues(_, _)
\* extend that goes on with the remaining pairs after an insert has failed
MapExtendContinues(root, pairs) ==
    IF pairs = << >> THEN [root |-> root, panicked |-> FALSE]
    ELSE LET r == MapInsert(root, Head(pairs)[1], Head(pairs)[2])
             rest == MapExtendContinues(r.root, Tail(pairs))
         IN [root |-> rest.root, panicked |-> r.panicked \/ rest.panicked]

RECURSIVE MapExtend(_, _)
\* Extend::extend with the pairs of a sequence (and the segment_map! macro on
\* a new map): one insert per pair, in order; a panic of an insert ends the loop
MapExtend(root, pairs) ==
    IF pairs = << >> THEN [root |-> root, panicked |-> FALSE]
    ELSE LET r == MapInsert(root, Head(pairs)[1], Head(pairs)[2])
         IN IF r.panicked THEN r ELSE MapExtend(r.root, Tail(pairs))

RECURSIVE SegmentMapMacroInserts(_, _)
\* the repetition $(temp_segment_map.insert($x, $y);)* of segment_map!: the
\* statements run in order, a panicking one ends the block
SegmentMapMacroInserts(temp_segment_map, pairs) ==
    IF pairs = << >> THEN [root |-> temp_segment_map, panicked |-> FALSE]
    ELSE LET r == MapInsert(temp_segment_map, Head(pairs)[1], Head(pairs)[2])
         IN IF r.panicked THEN r ELSE SegmentMapMacroInserts(r.root, Tail(pairs))

\* segment_map!{ x => y, ... }: a new map with every pair inserted
SegmentMapMacro(pairs) == SegmentMapMacroInserts(MapNew, pairs)

\* remove that gives up when the target is entirely before or after the
\* root's segment instead of descending
MapRemoveAtRootOnly(root, T) ==
    IF root # None
    THEN IF SegBefore(T, root[1].segment) \/ SegAfter(T, root[1].segment)
         THEN root
         ELSE NodeRemove(root[1], T)
    ELSE root

\* remove that reads a zero-width target [k,k) as the key k itself
MapRemoveClosed(root, T) ==
    IF root # None
    THEN NodeRemove(root[1], IF T.start = T.end THEN Segment(T.start, T.end + 1) ELSE T)
    ELSE root

\* remove that borrows the root and keeps it when the node returns nothing
MapRemoveKeepsRoot(root, T) ==
    IF root # None
    THEN (IF NodeRemove(root[1], T) = None THEN root ELSE NodeRemove(root[1], T))
    ELSE root

\* remove that, where the target covers the root's segment, joins what is
\* left of the two children in the wrong order
MapRemoveJoinReversed(root, T) ==
    IF root # None
    THEN IF T.start < T.end /\ T.start <= root[1].segment.start
               /\ root[1].segment.end <= T.end
         THEN Join(IF root[1].right = None THEN None ELSE NodeRemove(root[1].right[1], T),
                   IF root[1].left = None THEN None ELSE NodeRemove(root[1].left[1], T))
         ELSE NodeRemove(root[1], T)
    ELSE root

\* remove that returns at once for a target holding no key
MapRemoveIgnoresEmpty(root, T) ==
    IF root # None /\ T.start # T.end THEN NodeRemove(root[1], T) ELSE root

\* remove that, where the target covers the root's segment, goes on with the
\* right child alone
MapRemoveLosesLeft(root, T) ==
    IF root # None
    THEN IF T.start <= root[1].segment.start /\ root[1].segment.end <= T.end
               /\ ~SegBefore(T, root[1].segment) /\ ~SegAfter(T, root[1].segment)
         THEN (IF root[1].right = None THEN None ELSE NodeRemove(root[1].right[1], T))
         ELSE NodeRemove(root[1], T)
    ELSE root

\* remove that takes the root and does not store the node's result back
MapRemoveDropsRoot(root, T) == None

\* SegmentMap::remove: takes the root and stores what the node returns
MapRemove(root, T) ==
    IF root # None THEN NodeRemove(root[1], T) ELSE root

\* update that first clips the target to the span of the stored content
MapUpdateClipped(root, T, g) ==
    IF root # None
    THEN LET sp == NodeSpan(root[1])
             cl == Segment(Max(T.start, sp.start), Min(T.end, sp.end))
             r == NodeUpdate(root[1], cl, g)
         IN IF cl.start <= cl.end
            THEN [root |-> r.tree, panicked |-> FALSE, calls |-> r.calls]
            ELSE [root |-> root, panicked |-> FALSE, calls |-> << >>]
    ELSE LET x == Apply(g, T, None)
         IN IF x # None
            THEN [root |-> Some(Node(T, x[1], None, None)), panicked |-> FALSE,
                  calls |-> << Call(T, None) >>]
            ELSE [root |-> root, panicked |-> FALSE, calls |-> << Call(T, None) >>]

\* update that stores a single entry for a target enclosing the whole content
MapUpdateCoalesced(root, T, g) ==
    IF root # None
    THEN LET sp == NodeSpan(root[1])
             r == NodeUpdate(root[1], T, g)
             x == Apply(g, T, None)
         IN IF T.start <= sp.start /\ sp.end <= T.end /\ x # None
            THEN [root |-> Some(Node(T, x[1], None, None)), panicked |-> FALSE,
                  calls |-> << Call(T, None) >>]
            ELSE [root |-> r.tree, panicked |-> FALSE, calls |-> r.calls]
    ELSE LET x == Apply(g, T, None)
         IN IF x # None
            THEN [root |-> Some(Node(T, x[1], None, None)), panicked |-> FALSE,
                  calls |-> << Call(T, None) >>]
            ELSE [root |-> root, panicked |-> FALSE, calls |-> << Call(T, None) >>]

\* update that keeps the old root when the node returns no subtree
MapUpdateKeepsRoot(root, T, g) ==
    IF root # None
    THEN LET r == NodeUpdate(root[1], T, g)
         IN [root |-> IF r.tree = None THEN root ELSE r.tree, panicked |-> FALSE,
             calls |-> r.calls]
    ELSE LET x == Apply(g, T, None)
         IN IF x # None
            THEN [root |-> Some(Node(T, x[1], None, None)), panicked |-> FALSE,
                  calls |-> << Call(T, None) >>]
            ELSE [root |-> root, panicked |-> FALSE, calls |-> << Call(T, None) >>]

\* update done as a remove of the target followed by an insert of what the
\* closure yields for no prior value
MapUpdateRemoveThenInsert(root, T, g) ==
    LET x == Apply(g, T, None)
        rm == IF root # None THEN NodeRemove(root[1], T) ELSE root
    IN IF x # None
       THEN LET i == MapInsert(rm, T, x[1])
            IN [root |-> i.root, panicked |-> i.panicked, calls |-> << Call(T, None) >>]
       ELSE [root |-> rm, panicked |-> FALSE, calls |-> << Call(T, None) >>]

\* update that returns at once for a target holding no key
MapUpdateSkipsEmpty(root, T, g) ==
    IF T.start = T.end
    THEN [root |-> root, panicked |-> FALSE, calls |-> << >>]
    ELSE IF root # None
    THEN LET r == NodeUpdate(root[1], T, g)
         IN [root |-> r.tree, panicked |-> FALSE, calls |-> r.calls]
    ELSE LET x == Apply(g, T, None)
         IN IF x # None
            THEN [root |-> Some(Node(T, x[1], None, None)), panicked |-> FALSE,
                  calls |-> << Call(T, None) >>]
            ELSE [root |-> root, panicked |-> FALSE, calls |-> << Call(T, None) >>]

\* update that, when the closure yields a value for no prior value, inserts
\* the target strictly whether or not the map is empty
MapUpdateStrict(root, T, g) ==
    LET x == Apply(g, T, None)
    IN IF x # None
       THEN LET i == MapInsert(root, T, x[1])
            IN [root |-> i.root, panicked |-> i.panicked, calls |-> << Call(T, None) >>]
       ELSE IF root # None
       THEN LET r == NodeUpdate(root[1], T, g)
            IN [root |-> r.tree, panicked |-> FALSE, calls |-> r.calls]
       ELSE [root |-> root, panicked |-> FALSE, calls |-> << Call(T, None) >>]

\* update that takes a target holding no key for a new marker: it inserts
\* what the closure yields for no prior value
MapUpdatePointInserts(root, T, g) ==
    IF T.start = T.end
    THEN LET x == Apply(g, T, None)
         IN IF x # None
            THEN LET i == MapInsert(root, T, x[1])
                 IN [root |-> i.root, panicked |-> i.panicked, calls |-> << Call(T, None) >>]
            ELSE [root |-> root, panicked |-> FALSE, calls |-> << Call(T, None) >>]
    ELSE IF root # None
    THEN LET r == NodeUpdate(root[1], T, g)
         IN [root |-> r.tree, panicked |-> FALSE, calls |-> r.calls]
    ELSE LET x == Apply(g, T, None)
         IN IF x # None
            THEN [root |-> Some(Node(T, x[1], None, None)), panicked |-> FALSE,
                  calls |-> << Call(T, None) >>]
            ELSE [root |-> root, panicked |-> FALSE, calls |-> << Call(T, None) >>]

\* update that, on an empty map, stores the closure's value only for a target
\* that holds a key
MapUpdateEmptyWideOnly(root, T, g) ==
    IF root # None
    THEN LET r == NodeUpdate(root[1], T, g)
         IN [root |-> r.tree, panicked |-> FALSE, calls |-> r.calls]
    ELSE LET x == Apply(g, T, None)
         IN IF x # None /\ T.start < T.end
            THEN LET i == MapInsert(root, T, x[1])
                 IN [root |-> i.root, panicked |-> i.panicked, calls |-> << Call(T, None) >>]
            ELSE [root |-> root, panicked |-> FALSE, calls |-> << Call(T, None) >>]

\* SegmentMap::update. [root, panicked, calls |-> the calls of the closure]
MapUpdate(root, T, g) ==
    IF root # None
    THEN LET r == NodeUpdate(root[1], T, g)
         IN [root |-> r.tree, panicked |-> FALSE, calls |-> r.calls]
    ELSE LET x == Apply(g, T, None)
         IN IF x # None
            THEN LET i == MapInsert(root, T, x[1])
                 IN [root |-> i.root, panicked |-> i.panicked, calls |-> << Call(T, None) >>]
            ELSE [root |-> root, panicked |-> FALSE, calls |-> << Call(T, None) >>]

\* update_entry that hands the node the whole target's closure result: the
\* closure is called with the target instead of the sub-range
MapUpdateEntryWholeTarget(root, T, f) ==
    IF root # None
    THEN LET x == Apply(f, T, None)
             r == NodeUpdateEntry(root[1], T, IF x = None THEN FnNone ELSE FnConst(x[1]))
         IN [root |-> r.tree, panicked |-> FALSE, calls |-> r.calls]
    ELSE LET x == Apply(f, T, None)
         IN IF x # None
            THEN [root |-> Some(Node(T, x[1], None, None)), panicked |-> FALSE,
                  calls |-> << Call(T, None) >>]
            ELSE [root |-> root, panicked |-> FALSE, calls |-> << Call(T, None) >>]

\* update_entry without the else branch: nothing is done on an empty map
MapUpdateEntryNoElse(root, T, f) ==
    IF root # None
    THEN LET r == NodeUpdateEntry(root[1], T, f)
         IN [root |-> r.tree, panicked |-> FALSE, calls |-> r.calls]
    ELSE [root |-> root, panicked |-> FALSE, calls |-> << >>]

\* SegmentMap::update_entry
MapUpdateEntry(root, T, f) ==
    IF root # None
    THEN LET r == NodeUpdateEntry(root[1], T, f)
         IN [root |-> r.tree, panicked |-> FALSE, calls |-> r.calls]
    ELSE LET x == Apply(f, T, None)
         IN IF x # None
            THEN LET i == MapInsert(root, T, x[1])
                 IN [root |-> i.root, panicked |-> i.panicked, calls |-> << Call(T, None) >>]
            ELSE [root |-> root, panicked |-> FALSE, calls |-> << Call(T, None) >>]

(* ---------------- traversal ---------------- *)

RECURSIVE IntoIterDescendRight(_, _)
\* the descent with left and right exchanged
IntoIterDescendRight(current, stack) ==
    IF current # None
    THEN IntoIterDescendRight(current[1].right,
                              Append(stack, << current[1].segment, current[1].value, current[1].left >>))
    ELSE stack

RECURSIVE IntoIterDescend(_, _)
\* the while loop of IntoIter::next: push (segment, value, right) and go left
\* until current is None; yields the stack (top is the last element)
IntoIterDescend(current, stack) ==
    IF current # None
    THEN IntoIterDescend(current[1].left,
                         Append(stack, << current[1].segment, current[1].value, current[1].right >>))
    ELSE stack

\* IntoIter::next on the iterator state [current, stack]:
\* [item |-> Option<(Segment, V)>, current, stack]
IntoIterNext(current, stack) ==
    LET st == IntoIterDescend(current, stack)
    IN IF st # << >>
       THEN LET top == st[Len(st)]
            IN [item |-> Some(<< top[1], top[2] >>), current |-> top[3],
                stack |-> SubSeq(st, 1, Len(st) - 1)]
       ELSE [item |-> None, current |-> None, stack |-> st]

RECURSIVE IntoIterCollect(_, _)
\* collect::<Vec<_>>() of an iterator in state [current, stack]
IntoIterCollect(current, stack) ==
    LET r == IntoIterNext(current, stack)
    IN IF r.item = None THEN << >>
       ELSE << r.item[1] >> \o IntoIterCollect(r.current, r.stack)

\* SegmentMap::into_iter().collect(): the traversal content of the map
MapIntoIter(root) == IntoIterCollect(root, << >>)

(* ---------------- traversal by reference ---------------- *)

\* A reference to a node of the tree (&SegmentMapNode, &mut SegmentMapNode) is
\* the path to it from the root: a sequence of "left" / "right".
RECURSIVE NodeAt(_, _)
\* the node a reference points to
NodeAt(t, path) ==
    IF path = << >> THEN t[1]
    ELSE NodeAt(IF Head(path) = "left" THEN t[1].left ELSE t[1].right, Tail(path))

\* (*current.left).as_ref() / (*current.right).as_ref(), and the as_mut() forms:
\* a reference to the child on that side of the node at path, if there is one
ChildRef(t, path, side) ==
    IF (IF side = "left" THEN NodeAt(t, path).left ELSE NodeAt(t, path).right) = None
    THEN None
    ELSE Some(Append(path, side))

\* SegmentMap::iter: [current |-> self.root.as_ref(), stack |-> Vec::new()]
MapIter(t) == [current |-> IF t = None THEN None ELSE Some(<< >>), stack |-> << >>]

\* SegmentMap::iter_mut: [current |-> self.root.as_mut(), stack |-> Vec::new()]
MapIterMut(t) == [current |-> IF t = None THEN None ELSE Some(<< >>), stack |-> << >>]

RECURSIVE IterDescendNoRight(_, _, _)
\* the descent that pushes no reference to the right child
IterDescendNoRight(t, current, stack) ==
    IF current # None
    THEN IterDescendNoRight(t, ChildRef(t, current[1], "left"),
                            Append(stack, << current[1], None >>))
    ELSE stack

RECURSIVE IterDescend(_, _, _)
\* the while loop of Iter::next: push (&segment, &value, right) of the node
\* current refers to (the first two as the reference to the node) and go left
IterDescend(t, current, stack) ==
    IF current # None
    THEN IterDescend(t, ChildRef(t, current[1], "left"),
                     Append(stack, << current[1], ChildRef(t, current[1], "right") >>))
    ELSE stack

\* Iter::next: [item |-> Option<(&Segment, &V)> read through, current, stack]
IterNext(t, it) ==
    LET st == IterDescend(t, it.current, it.stack)
    IN IF st # << >>
       THEN LET top == st[Len(st)]
            IN [item |-> Some(<< NodeAt(t, top[1]).segment, NodeAt(t, top[1]).value >>),
                current |-> top[2], stack |-> SubSeq(st, 1, Len(st) - 1)]
       ELSE [item |-> None, current |-> None, stack |-> st]

RECURSIVE IterMutDescend(_, _, _)
\* the while loop of IterMut::next
IterMutDescend(t, current, stack) ==
    IF current # None
    THEN IterMutDescend(t, ChildRef(t, current[1], "left"),
                        Append(stack, << current[1], ChildRef(t, current[1], "right") >>))
    ELSE stack

\* IterMut::next: [item |-> Option<(&Segment, &mut V)> read through, current, stack]
IterMutNext(t, it) ==
    LET st == IterMutDescend(t, it.current, it.stack)
    IN IF st # << >>
       THEN LET top == st[Len(st)]
            IN [item |-> Some(<< NodeAt(t, top[1]).segment, NodeAt(t, top[1]).value >>),
                current |-> top[2], stack |-> SubSeq(st, 1, Len(st) - 1)]
       ELSE [item |-> None, current |-> None, stack |-> st]

\* Segments::next: the inner Iter's item mapped to its segment
SegmentsNext(t, it) ==
    LET r == IterNext(t, it)
    IN [r EXCEPT !.item = IF r.item = None THEN None ELSE Some(r.item[1][1])]

\* Values::next: the inner Iter's item mapped to its value
ValuesNext(t, it) ==
    LET r == IterNext(t, it)
    IN [r EXCEPT !.item = IF r.item = None THEN None ELSE Some(r.item[1][2])]

\* ValuesMut::next: the inner IterMut's item mapped to its value
ValuesMutNext(t, it) ==
    LET r == IterMutNext(t, it)
    IN [r EXCEPT !.item = IF r.item = None THEN None ELSE Some(r.item[1][2])]

RECURSIVE IterCollect(_, _)
\* segment_map.iter().collect()
IterCollect(t, it) ==
    LET r == IterNext(t, it)
    IN IF r.item = None THEN << >>
       ELSE << r.item[1] >> \o IterCollect(t, [current |-> r.current, stack |-> r.stack])

RECURSIVE IterMutCollect(_, _)
\* segment_map.iter_mut().collect()
IterMutCollect(t, it) ==
    LET r == IterMutNext(t, it)
    IN IF r.item = None THEN << >>
       ELSE << r.item[1] >> \o IterMutCollect(t, [current |-> r.current, stack |-> r.stack])

RECURSIVE SegmentsCollect(_, _)
\* segment_map.segments().collect()
SegmentsCollect(t, it) ==
    LET r == SegmentsNext(t, it)
    IN IF r.item = None THEN << >>
       ELSE << r.item[1] >> \o SegmentsCollect(t, [current |-> r.current, stack |-> r.stack])

RECURSIVE ValuesCollect(_, _)
\* segment_map.values().collect()
ValuesCollect(t, it) ==
    LET r == ValuesNext(t, it)
    IN IF r.item = None THEN << >>
       ELSE << r.item[1] >> \o ValuesCollect(t, [current |-> r.current, stack |-> r.stack])

RECURSIVE ValuesMutCollect(_, _)
\* segment_map.values_mut().collect()
ValuesMutCollect(t, it) ==
    LET r == ValuesMutNext(t, it)
    IN IF r.item = None THEN << >>
       ELSE << r.item[1] >> \o ValuesMutCollect(t, [current |-> r.current, stack |-> r.stack])

\* SegmentMap::segments, values, values_mut: the views over iter / iter_mut
MapSegments(t) == SegmentsCollect(t, MapIter(t))
MapValues(t) == ValuesCollect(t, MapIter(t))
MapValuesMut(t) == ValuesMutCollect(t, MapIterMut(t))

(* ---------------- the state machine ---------------- *)

VARIABLES
    root,       \* SegmentMap.root: Option<SegmentMapNode<K, V>>
    panicked,   \* whether the last call on the map panicked
    ret         \* what the last lookup returned: Option<(Segment, V)>

vars == << root, panicked, ret >>

\* closures the UpdateEntry action passes: the ones that read the sub-range,
\* and the one that yields nothing
EntryActionFns == { FnWidth, FnNone }

\* let mut segment_map = SegmentMap::new();
Init ==
    /\ root = MapNew
    /\ panicked = FALSE
    /\ ret = None

\* segment_map.insert(seg, v)
Insert(seg, v) ==
    LET r == MapInsert(root, seg, v)
    IN /\ Size(r.root) <= MaxNodes
       /\ root' = r.root
       /\ panicked' = r.panicked
       /\ ret' = None

\* segment_map.remove(&T)
Remove(T) ==
    /\ root' = MapRemove(root, T)
    /\ Size(root') <= MaxNodes
    /\ panicked' = FALSE
    /\ ret' = None

\* segment_map.update(&T, g)
Update(T, g) ==
    LET r == MapUpdate(root, T, g)
    IN /\ Size(r.root) <= MaxNodes
       /\ root' = r.root
       /\ panicked' = r.panicked
       /\ ret' = None

\* segment_map.update_entry(&T, f)
UpdateEntry(T, f) ==
    LET r == MapUpdateEntry(root, T, f)
    IN /\ Size(r.root) <= MaxNodes
       /\ root' = r.root
       /\ panicked' = r.panicked
       /\ ret' = None

\* segment_map.clear()
Clear ==
    /\ root' = MapClear(root)
    /\ panicked' = FALSE
    /\ ret' = None

\* segment_map.get_entry(&k)
Lookup(k) ==
    /\ ret' = MapGetEntry(root, k)
    /\ root' = root
    /\ panicked' = FALSE

\* the operations that change the map
Next ==
    \/ \E seg \in Segments, v \in Values : Insert(seg, v)
    \/ \E T \in Segments : Remove(T)
    \/ \E T \in Segments, g \in ValueFns : Update(T, g)
    \/ \E T \in Segments, f \in EntryActionFns : UpdateEntry(T, f)
    \/ Clear

Spec == Init /\ [][Next]_vars

\* the operations that change the map, and the lookups
NextLookup ==
    \/ \E seg \in Segments, v \in Values : Insert(seg, v)
    \/ \E T \in Segments : Remove(T)
    \/ \E T \in Segments, g \in ValueFns : Update(T, g)
    \/ \E T \in Segments, f \in EntryActionFns : UpdateEntry(T, f)
    \/ Clear
    \/ \E k \in Keys : Lookup(k)

SpecLookup == Init /\ [][NextLookup]_vars

(* ---------------- properties ---------------- *)

\* the traversal content of the map: the (segment, value) pairs into_iter yields
Content == MapIntoIter(root)

\* the key sets of two segments intersect
Overlaps(a, b) == \E k \in Keys : SegmentContains(a, k) /\ SegmentContains(b, k)

\* no key lies in two different entries of the sequence c
NonOverlapping(c) ==
    \A i, j \in DOMAIN c : i # j => ~Overlaps(c[i][1], c[j][1])

\* c is in non-decreasing start order, and a zero-width entry [p,p) comes after
\* every other entry ending at p and before every other entry starting at p
Ordered(c) ==
    /\ \A i, j \in DOMAIN c : i < j => c[i][1].start <= c[j][1].start
    /\ \A i, j \in DOMAIN c :
          (i # j /\ IsEmptySegment(c[i][1])) =>
             /\ (c[j][1].end = c[i][1].start => j < i)
             /\ (c[j][1].start = c[i][1].start => i < j)

\* C1: in every reachable state the stored segments are pairwise
\* non-overlapping: no key k has start <= k < end for two stored segments.
C1_NonOverlap == NonOverlapping(Content)

\* three stored entries, two of them non-degenerate segments that touch
C1_Witness ==
    /\ Len(Content) >= 3
    /\ \E i, j \in DOMAIN Content :
          /\ ~IsEmptySegment(Content[i][1])
          /\ ~IsEmptySegment(Content[j][1])
          /\ Content[i][1].end = Content[j][1].start

\* C2: in every reachable state the traversal yields the stored segments in
\* non-decreasing start order, a zero-width segment [p,p) after any stored
\* segment ending at p and before any stored segment starting at p.
C2_Order == Ordered(Content)

\* a marker [p,p) stored between a segment ending at p and one starting at p
C2_Witness ==
    \E i \in DOMAIN Content :
        /\ i > 1 /\ i < Len(Content)
        /\ IsEmptySegment(Content[i][1])
        /\ Content[i - 1][1].end = Content[i][1].start
        /\ Content[i - 1][1].start < Content[i][1].start
        /\ Content[i + 1][1].start = Content[i][1].start
        /\ Content[i + 1][1].end > Content[i][1].start

\* every entry of the sequence c is an entry of the sequence d
EntriesKept(c, d) == \A i \in DOMAIN c : \E j \in DOMAIN d : d[j] = c[i]

\* C3: insert(segment, value) panics whenever segment overlaps a stored
\* segment or is an exact duplicate of one, and whether it panics or not every
\* entry stored before the call is still stored, with its value, after it.
C3_InsertOverlapFails ==
    \A seg \in Segments, v \in Values :
        LET r == MapInsert(root, seg, v)
        IN /\ (\E i \in DOMAIN Content :
                   Overlaps(seg, Content[i][1]) \/ seg = Content[i][1]) => r.panicked
           /\ EntriesKept(Content, MapIntoIter(r.root))
           /\ Len(MapIntoIter(r.root)) = Len(Content) + (IF r.panicked THEN 0 ELSE 1)

\* a call has just panicked on a map of two or more entries, one a marker
C3_Witness ==
    /\ panicked
    /\ Len(Content) >= 2
    /\ \E i \in DOMAIN Content : IsEmptySegment(Content[i][1])

\* C4: a step in which insert panics (the only call that can) leaves the traversal content unchanged,
\* and the content still is non-overlapping and ordered.
C4_FailedInsertUnchanged ==
    [][panicked' =>
          /\ MapIntoIter(root') = MapIntoIter(root)
          /\ root' = root
          /\ NonOverlapping(MapIntoIter(root'))
          /\ Ordered(MapIntoIter(root'))]_vars

\* a call has just panicked on a map whose root has a child
C4_Witness ==
    /\ panicked
    /\ root # None
    /\ (root[1].left # None \/ root[1].right # None)

\* the indices of the stored entries whose range contains k
Holders(k) == { i \in DOMAIN Content : SegmentContains(Content[i][1], k) }

\* C5: for every key k, get_entry(k) is the unique stored entry with
\* start <= k < end and get(k) its value; both are None when no stored segment
\* contains k; no lookup returns a zero-width segment.
C5_PointLookup ==
    \A k \in Keys :
        /\ Cardinality(Holders(k)) <= 1
        /\ \A i \in Holders(k) :
              /\ MapGetEntry(root, k) = Some(Content[i])
              /\ MapGet(root, k) = Some(Content[i][2])
              /\ MapContainsKey(root, k)
        /\ Holders(k) = {} =>
              /\ MapGetEntry(root, k) = None
              /\ MapGet(root, k) = None
              /\ ~MapContainsKey(root, k)
        /\ MapGetEntry(root, k) # None => ~IsEmptySegment(MapGetEntry(root, k)[1][1])

\* a lookup has just returned an entry that is not at the root, from a map
\* that also stores a marker at that entry's start
C5_Witness ==
    /\ ret # None
    /\ ret[1][1] # root[1].segment
    /\ \E i \in DOMAIN Content :
          IsEmptySegment(Content[i][1]) /\ Content[i][1].start = ret[1][1].start

(* ---- the range operations, stated on the traversal content ---- *)

\* the targets [ts, te) with ts < te
WideSegments == { T \in Segments : T.start < T.end }

\* the stored segment seg lies neither wholly before T (end <= ts) nor wholly
\* after it (start >= te)
Intersects(seg, T) == ~(seg.end <= T.start \/ seg.start >= T.end)

\* the part of a stored segment that T covers
Middle(seg, T) == Segment(Max(seg.start, T.start), Min(seg.end, T.end))

\* what one stored entry e becomes under target T and closure f: itself when
\* it does not intersect T, else its left remainder, the middle part with the
\* value f yields for it, and its right remainder
Pieces(e, T, f) ==
    IF ~Intersects(e[1], T) THEN << e >>
    ELSE LET m == Apply(f, Middle(e[1], T), Some(e[2]))
         IN (IF e[1].start < T.start
             THEN << << Segment(e[1].start, T.start), e[2] >> >> ELSE << >>)
            \o (IF m # None THEN << << Middle(e[1], T), m[1] >> >> ELSE << >>)
            \o (IF e[1].end > T.end
                THEN << << Segment(T.end, e[1].end), e[2] >> >> ELSE << >>)

RECURSIVE StoredPart(_, _, _)
\* the pieces of all entries of the sequence c, in order
StoredPart(c, T, f) ==
    IF c = << >> THEN << >>
    ELSE Pieces(Head(c), T, f) \o StoredPart(Tail(c), T, f)

RECURSIVE StoredCalls(_, _)
\* the calls (middle part, Some(old value)) for the entries of c that intersect T
StoredCalls(c, T) ==
    IF c = << >> THEN << >>
    ELSE (IF Intersects(Head(c)[1], T)
          THEN << Call(Middle(Head(c)[1], T), Some(Head(c)[2])) >> ELSE << >>)
         \o StoredCalls(Tail(c), T)

\* the gaps of T in c: the non-empty sub-ranges of T that no entry of c
\* intersects, delimited on each side by a bound of T or of a stored segment
\* (a stored point marker inside T delimits the gaps on its two sides)
Gaps(c, T) ==
    { G \in WideSegments :
        /\ T.start <= G.start /\ G.end <= T.end
        /\ \A i \in DOMAIN c : ~Intersects(c[i][1], G)
        /\ (G.start = T.start \/ \E i \in DOMAIN c : c[i][1].end = G.start)
        /\ (G.end = T.end \/ \E i \in DOMAIN c : c[i][1].start = G.end) }

\* the elements of a sequence, as a set
Range(q) == { q[i] : i \in DOMAIN q }

\* the entries of the sequence d whose segment is none of the gaps of c in T
NotInGap(c, T, d) ==
    LET Keep(e) == e[1] \notin Gaps(c, T) IN SelectSeq(d, Keep)

\* the entries of the sequence d whose segment is one of the gaps of c in T
InGap(c, T, d) ==
    LET Keep(e) == e[1] \in Gaps(c, T) IN SelectSeq(d, Keep)

\* the calls of a call sequence that pass an old value / pass none
CallsWithOld(q) == LET Keep(x) == x.old # None IN SelectSeq(q, Keep)
CallsWithNone(q) == LET Keep(x) == x.old = None IN SelectSeq(q, Keep)

\* C6: remove(T) with ts < te leaves exactly, in ascending order, every stored
\* entry that does not intersect T unchanged and, for every stored entry
\* [s,e)->v that intersects T, [s,ts)->v when s < ts and [te,e)->v when e > te.
C6_RemoveContent ==
    \A T \in WideSegments :
        MapIntoIter(MapRemove(root, T)) = StoredPart(Content, T, FnNone)

\* some remove(T) here cuts one entry on both sides or cuts two entries, and
\* leaves another entry untouched
C6_Witness ==
    \E T \in WideSegments :
        /\ \E i \in DOMAIN Content :
              /\ Content[i][1].start < T.start
              /\ T.start < Content[i][1].end
        /\ \E i \in DOMAIN Content :
              /\ Content[i][1].start < T.end
              /\ T.end < Content[i][1].end
        /\ \E i \in DOMAIN Content : ~Intersects(Content[i][1], T)
        /\ Len(MapIntoIter(MapRemove(root, T))) >= 3

\* C7: update_entry(T, g) with ts < te replaces every stored entry [s,e)->v
\* that intersects T by [s,ts)->v when s < ts, the middle part
\* M = [max(s,ts), min(e,te)) with the value of g(M, Some(v)) when that is a
\* value, and [te,e)->v when e > te; other stored entries are unchanged, and g
\* is called with an old value exactly once per intersecting entry, with (M, v).
C7_UpdateEntrySplit ==
    \A T \in WideSegments, g \in EntryFns :
        LET r == MapUpdateEntry(root, T, g)
        IN /\ NotInGap(Content, T, MapIntoIter(r.root)) = StoredPart(Content, T, g)
           /\ CallsWithOld(r.calls) = StoredCalls(Content, T)

\* some update_entry(T, |segment, _| Some(width)) here splits a stored entry
\* into three and gives the middle part a value other than the old one
C7_Witness ==
    \E T \in WideSegments, i \in DOMAIN Content :
        /\ Content[i][1].start < T.start
        /\ T.end < Content[i][1].end
        /\ Len(Pieces(Content[i], T, FnWidth)) = 3
        /\ Pieces(Content[i], T, FnWidth)[2][2] # Content[i][2]
        /\ Len(MapIntoIter(MapUpdateEntry(root, T, FnWidth).root)) >= 3

\* the gap part of an update's result r on content c: every gap of T is
\* offered once with no prior value, an entry is stored for exactly the gaps
\* the closure yields a value for, and no zero-width entry is new
GapsFilled(c, T, f, r) ==
    /\ Len(CallsWithNone(r.calls)) = Cardinality(Gaps(c, T))
    /\ Range(CallsWithNone(r.calls)) = { Call(G, None) : G \in Gaps(c, T) }
    /\ Len(InGap(c, T, MapIntoIter(r.root)))
          = Cardinality({ G \in Gaps(c, T) : Apply(f, G, None) # None })
    /\ Range(InGap(c, T, MapIntoIter(r.root)))
          = { << G, Apply(f, G, None)[1] >> : G \in { H \in Gaps(c, T) : Apply(f, H, None) # None } }
    /\ \A i \in DOMAIN MapIntoIter(r.root) :
          IsEmptySegment(MapIntoIter(r.root)[i][1]) =>
             \E j \in DOMAIN c : c[j][1] = MapIntoIter(r.root)[i][1]

\* C8: on a non-empty map, update(T, f) and update_entry(T, f) with ts < te
\* offer every maximal non-empty sub-range of T covered by no stored segment to
\* f exactly once with None and store a new entry for exactly that sub-range
\* when f yields a value; no zero-width entry is created.
C8_GapFilling ==
    root # None =>
        \A T \in WideSegments :
            /\ \A f \in ValueFns : GapsFilled(Content, T, f, MapUpdate(root, T, f))
            /\ \A f \in EntryFns : GapsFilled(Content, T, f, MapUpdateEntry(root, T, f))

\* some target here has a gap between two stored segments and a gap before
\* the first stored segment
C8_Witness ==
    /\ root # None
    /\ \E T \in WideSegments :
          /\ Cardinality(Gaps(Content, T)) >= 2
          /\ \E i \in DOMAIN Content : Intersects(Content[i][1], T)
          /\ \E G \in Gaps(Content, T) : G.start = T.start /\ G.end < T.end
          /\ Len(MapIntoIter(MapUpdate(root, T, FnSucc).root)) >= 3

\* the closures of update that yield a value for every argument
TotalFns == { FnSucc } \cup { FnConst(x) : x \in Values }

\* the keys at which an entry of c ends and the next entry of c starts
Boundaries(c) ==
    { c[i][1].end : i \in { j \in DOMAIN c : j < Len(c) /\ c[j][1].end = c[j + 1][1].start } }

\* C9: for a closure that always yields a value, every boundary between two
\* stored segments before update(T, f) is a boundary between two distinct
\* stored segments after it, also when both now carry the same value.
C9_NoCoalescing ==
    \A T \in Segments, f \in TotalFns :
        /\ Boundaries(Content) \subseteq Boundaries(MapIntoIter(MapUpdate(root, T, f).root))
        /\ Len(MapIntoIter(MapUpdate(root, T, f).root)) >= Len(Content)

\* three adjacent stored segments with different values that one update
\* covering them all turns into three entries of the same value
C9_Witness ==
    /\ Len(Content) = 3
    /\ Cardinality(Boundaries(Content)) = 2
    /\ Content[1][2] # Content[2][2]
    /\ \A i \in DOMAIN Content : ~IsEmptySegment(Content[i][1])
    /\ \E T \in Segments, x \in Values :
          LET d == MapIntoIter(MapUpdate(root, T, FnConst(x)).root)
          IN Len(d) = 3 /\ \A i \in DOMAIN d : d[i][2] = x

Perms(n) == { p \in [1 .. n -> 1 .. n] : \A i, j \in 1 .. n : p[i] = p[j] => i = j }

\* the sequence c rearranged by the permutation p
Permuted(c, p) == [i \in DOMAIN c |-> c[p[i]]]

\* the maps built by inserting the entries of c into a new map, one per order
\* of insertion that does not panic
Rebuilt(c) ==
    { MapExtend(MapNew, Permuted(c, p)).root :
        p \in { q \in Perms(Len(c)) : ~MapExtend(MapNew, Permuted(c, q)).panicked } }

\* C11: the stored entries being any set of pairwise non-overlapping pairs,
\* inserting them into an empty map in any order never panics and yields the
\* same traversal content, the content of this map.
C11_InsertOrderIndependent ==
    \A p \in Perms(Len(Content)) :
        LET r == MapExtend(MapNew, Permuted(Content, p))
        IN ~r.panicked /\ MapIntoIter(r.root) = Content

\* three stored entries, one a marker, that two orders of insertion store in
\* trees of different shape; the map itself has none of the shapes of a
\* sorted insertion
C11_Witness ==
    /\ Len(Content) = 3
    /\ \E i \in DOMAIN Content : IsEmptySegment(Content[i][1])
    /\ Cardinality(Rebuilt(Content)) >= 5
    /\ root # MapExtend(MapNew, Content).root

\* C12: for every map m built by inserting this map's content in some order
\* (same traversal content, another tree shape) and every target T and
\* closure f, remove(T), update(T, f) and update_entry(T, f) on m yield the
\* traversal content they yield on this map.
C12_ShapeIndependent ==
    LET shapes == Rebuilt(Content)
    IN \A T \in Segments :
          /\ LET here == MapIntoIter(MapRemove(root, T))
             IN \A m \in shapes : MapIntoIter(MapRemove(m, T)) = here
          /\ \A g \in ValueFns :
                LET here == MapIntoIter(MapUpdate(root, T, g).root)
                IN \A m \in shapes : MapIntoIter(MapUpdate(m, T, g).root) = here
          /\ \A f \in EntryFns :
                LET here == MapIntoIter(MapUpdateEntry(root, T, f).root)
                IN \A m \in shapes : MapIntoIter(MapUpdateEntry(m, T, f).root) = here

\* three stored entries in a tree that no order of insertion builds the same
\* way as every other, with a marker strictly inside a target that also
\* reaches two other entries, and a remove that changes the content
C12_Witness ==
    /\ Len(Content) = 3
    /\ Cardinality(Rebuilt(Content)) >= 5
    /\ \E T \in WideSegments :
          /\ \E i \in DOMAIN Content :
                IsEmptySegment(Content[i][1])
                   /\ T.start < Content[i][1].start /\ Content[i][1].start < T.end
          /\ \A i \in DOMAIN Content : Intersects(Content[i][1], T)
          /\ MapIntoIter(MapRemove(root, T)) # Content

(* ---- the identity update ---- *)

\* every key of T lies in a stored segment of c
Covered(c, T) ==
    \A k \in Keys : SegmentContains(T, k) => \E i \in DOMAIN c : SegmentContains(c[i][1], k)

\* the key k lies strictly inside a stored segment of c
StrictlyInside(c, k) == \E i \in DOMAIN c : c[i][1].start < k /\ k < c[i][1].end

\* the value stored for each key, and nothing for the keys in no stored segment
Mapping(t) == [k \in Keys |-> MapGet(t, k)]

\* C13 as stated: update(T, |old| old) with a non-empty target T whose whole
\* range is covered by stored entries leaves the traversal content unchanged.
C13_IdentityUpdateUnchanged ==
    \A T \in WideSegments :
        Covered(Content, T) => MapIntoIter(MapUpdate(root, T, FnId).root) = Content

\* C13 amended: update(T, |old| old) with a non-empty target T whose whole
\* range is covered by stored entries leaves the value of every key unchanged
\* and changes the traversal content only by cutting, at T's start and end, the
\* stored segments these lie strictly inside (each piece keeps the value); the
\* content is unchanged exactly when neither bound of T lies strictly inside a
\* stored segment.
C13_IdentityUpdateCuts ==
    \A T \in WideSegments :
        Covered(Content, T) =>
            LET after == MapUpdate(root, T, FnId).root
            IN /\ MapIntoIter(after) = StoredPart(Content, T, FnId)
               /\ Mapping(after) = Mapping(root)
               /\ \A i \in DOMAIN MapIntoIter(after) :
                     \E j \in DOMAIN Content :
                        /\ MapIntoIter(after)[i][2] = Content[j][2]
                        /\ Content[j][1].start <= MapIntoIter(after)[i][1].start
                        /\ MapIntoIter(after)[i][1].end <= Content[j][1].end
               /\ (MapIntoIter(after) = Content)
                     <=> (~StrictlyInside(Content, T.start) /\ ~StrictlyInside(Content, T.end))

\* two stored entries with different values and a covered target that starts
\* strictly inside the first and ends with the second: the identity update
\* cuts the first; another covered target leaves the content as it is
C13_Witness ==
    /\ Len(Content) = 2
    /\ Content[1][2] # Content[2][2]
    /\ \E T \in WideSegments :
          /\ Covered(Content, T)
          /\ Content[1][1].start < T.start /\ T.start < Content[1][1].end
          /\ T.end = Content[2][1].end /\ Content[2][1].start < T.end
          /\ Len(MapIntoIter(MapUpdate(root, T, FnId).root)) = 3
    /\ \E T \in WideSegments :
          /\ Covered(Content, T)
          /\ MapIntoIter(MapUpdate(root, T, FnId).root) = Content

(* ---- zero-width targets ---- *)

\* the zero-width segment at p
Point(p) == Segment(p, p)

\* a point marker is stored at p
MarkerAt(c, p) == \E i \in DOMAIN c : c[i][1] = Point(p)

\* C14: remove([k,k)) leaves the traversal content unchanged whenever k lies
\* strictly inside no stored segment and no point marker [k,k) is stored: on
\* the empty map, for k touching no entry, for k a start or end bound of
\* stored segments.
C14_ZeroWidthRemoveNoOp ==
    \A k \in Keys :
        (~StrictlyInside(Content, k) /\ ~MarkerAt(Content, k)) =>
            MapIntoIter(MapRemove(root, Point(k))) = Content

\* two adjacent stored segments not starting at key 0, and a marker stored
\* elsewhere: key 0 touches no entry, one key is the start of the first
\* segment, one the shared boundary, none of them holding a marker
C14_Witness ==
    /\ Len(Content) = 3
    /\ Content[1][1].start > 0
    /\ ~IsEmptySegment(Content[1][1])
    /\ ~IsEmptySegment(Content[2][1])
    /\ Content[1][1].end = Content[2][1].start
    /\ IsEmptySegment(Content[3][1])
    /\ \A k \in { 0, Content[1][1].start, Content[2][1].start } :
          /\ ~StrictlyInside(Content, k) /\ ~MarkerAt(Content, k)
          /\ MapIntoIter(MapRemove(root, Point(k))) = Content

\* the content c with the optional marker value o stored at p: the entries
\* ending at or before p, then the stored segment p lies strictly inside cut
\* into [s,p) and [p,e) around the marker, then the entries starting at or
\* after p
MarkerInserted(c, p, o) ==
    LET Before(e) == e[1].end <= p
        After(e) == e[1].start >= p
        Inside(e) == e[1].start < p /\ p < e[1].end
        in == SelectSeq(c, Inside)
    IN SelectSeq(c, Before)
       \o (IF in # << >> THEN << << Segment(in[1][1].start, p), in[1][2] >> >> ELSE << >>)
       \o (IF o # None THEN << << Point(p), o[1] >> >> ELSE << >>)
       \o (IF in # << >> THEN << << Segment(p, in[1][1].end), in[1][2] >> >> ELSE << >>)
       \o SelectSeq(c, After)

\* what the closure f is asked at p: the value of the stored segment p lies
\* strictly inside, or no prior value
AskedAt(c, p, f) ==
    LET Inside(e) == e[1].start < p /\ p < e[1].end
        in == SelectSeq(c, Inside)
    IN IF in # << >> THEN Apply(f, Point(p), Some(in[1][2])) ELSE Apply(f, Point(p), None)

\* C15 as stated: on a non-empty map with no marker at p, update([p,p), f)
\* with f(None) = Some(x) stores the content before with [p,p)->x added at its
\* ordered position, the stored segment with s < p < e cut into [s,p) and
\* [p,e) around it, every other entry unchanged.
C15_MarkerHoldsValueForNone ==
    root # None =>
        \A p \in Keys, f \in ValueFns :
            (~MarkerAt(Content, p) /\ Apply(f, Point(p), None) # None) =>
                MapIntoIter(MapUpdate(root, Point(p), f).root)
                    = MarkerInserted(Content, p, Apply(f, Point(p), None))

\* C15 amended: on a non-empty map with no marker at p, update([p,p), f)
\* stores the content before with at most one zero-width entry [p,p) added at
\* its ordered position and every other entry unchanged, except that a stored
\* segment [s,e)->v with s < p < e is cut into [s,p)->v and [p,e)->v around
\* it; the marker holds what f yields for Some(v) in that case and what f
\* yields for None when p lies strictly inside no stored segment, and no
\* marker is stored when f yields nothing.
C15_PointMarkerByUpdate ==
    root # None =>
        \A p \in Keys, f \in ValueFns :
            ~MarkerAt(Content, p) =>
                MapIntoIter(MapUpdate(root, Point(p), f).root)
                    = MarkerInserted(Content, p, AskedAt(Content, p, f))

\* two adjacent stored segments with no marker: at a key strictly inside the
\* first the closure |old| Some(old + 1 or 0) yields for the stored value
\* another value than for None and the segment is cut around the new marker;
\* at the shared boundary the marker is added between the two segments
C15_Witness ==
    /\ Len(Content) = 2
    /\ Content[1][1].end = Content[2][1].start
    /\ ~MarkerAt(Content, Content[2][1].start)
    /\ Len(MapIntoIter(MapUpdate(root, Point(Content[2][1].start), FnSucc).root)) = 3
    /\ \E p \in Keys :
          /\ Content[1][1].start < p /\ p < Content[1][1].end
          /\ AskedAt(Content, p, FnSucc) # Apply(FnSucc, Point(p), None)
          /\ Len(MapIntoIter(MapUpdate(root, Point(p), FnSucc).root)) = 4

\* C16: when no marker is stored at p and p lies strictly inside no stored
\* segment (p is at most a start or end bound of stored segments),
\* insert([p,p), v) succeeds and stores the marker at its ordered position,
\* and a following insert([p,p), w) panics and stores no second marker; an
\* insert of [p,p) panics whenever a marker is stored at p.
C16_MarkerInsertedOnce ==
    \A p \in Keys, v \in Values, w \in Values :
        /\ (~MarkerAt(Content, p) /\ ~StrictlyInside(Content, p)) =>
              LET first == MapInsert(root, Point(p), v)
                  second == MapInsert(first.root, Point(p), w)
              IN /\ ~first.panicked
                 /\ MapIntoIter(first.root) = MarkerInserted(Content, p, Some(v))
                 /\ second.panicked
                 /\ MapIntoIter(second.root) = MapIntoIter(first.root)
        /\ MarkerAt(Content, p) =>
              /\ MapInsert(root, Point(p), w).panicked
              /\ Cardinality({ i \in DOMAIN Content : Content[i][1] = Point(p) }) = 1

\* an insert has just panicked on a map storing a segment and a marker at
\* its end, and the start of that segment holds no marker yet
C16_Witness ==
    /\ panicked
    /\ Len(Content) = 2
    /\ ~IsEmptySegment(Content[1][1])
    /\ Content[2][1] = Point(Content[1][1].end)
    /\ ~MarkerAt(Content, Content[1][1].start)
    /\ MapInsert(root, Content[2][1], 0).panicked
    /\ ~MapInsert(root, Point(Content[1][1].start), 0).panicked

(* ---- totality ---- *)

\* seg lies neither entirely before nor entirely after some stored segment of
\* c, or is one of them
Conflicts(seg, c) ==
    \E i \in DOMAIN c : Intersects(c[i][1], seg) \/ c[i][1] = seg

\* the sequence c is the traversal content of a valid map
ValidContent(c) == NonOverlapping(c) /\ Ordered(c)

\* C17: on every reachable map, the empty one included, and for every key and
\* every target (zero-width ones and ones wholly outside the content
\* included), get, get_entry, contains_key, span and the traversal yield a
\* result, and remove, update and update_entry do not panic and leave a valid
\* map; insert panics only for a segment that conflicts with a stored one,
\* and a bulk load only when one of its inserts does.
C17_Totality ==
    /\ \A k \in Keys :
          /\ MapGetEntry(root, k) \in { None } \cup { Some(Content[i]) : i \in DOMAIN Content }
          /\ MapGet(root, k) \in { None } \cup { Some(x) : x \in Values }
          /\ MapContainsKey(root, k) \in BOOLEAN
    /\ MapSpan(root) \in { None } \cup { Some(seg) : seg \in Segments }
    /\ Len(MapIntoIter(root)) = Size(root)
    /\ \A T \in Segments :
          /\ ValidContent(MapIntoIter(MapRemove(root, T)))
          /\ \A g \in ValueFns :
                /\ ~MapUpdate(root, T, g).panicked
                /\ ValidContent(MapIntoIter(MapUpdate(root, T, g).root))
          /\ \A f \in EntryFns :
                /\ ~MapUpdateEntry(root, T, f).panicked
                /\ ValidContent(MapIntoIter(MapUpdateEntry(root, T, f).root))
    /\ \A seg \in Segments, v \in Values :
          /\ MapInsert(root, seg, v).panicked => Conflicts(seg, Content)
          /\ \A seg2 \in Segments :
                MapExtend(root, << << seg, v >>, << seg2, v >> >>).panicked
                   => (Conflicts(seg, Content) \/ Conflicts(seg2, Content)
                         \/ Intersects(seg, seg2) \/ seg = seg2)

\* a map of a segment and a marker, not starting at key 0, with a target
\* wholly before the content that update fills, a zero-width target, and a
\* key no stored segment contains
C17_Witness ==
    /\ Len(Content) >= 2
    /\ \E i \in DOMAIN Content : IsEmptySegment(Content[i][1])
    /\ Content[1][1].start > 0
    /\ MapGetEntry(root, 0) = None
    /\ Len(MapIntoIter(MapUpdate(root, Segment(0, Content[1][1].start), FnSucc).root))
          = Len(Content) + 1
    /\ \E p \in Keys :
          Len(MapIntoIter(MapUpdateEntry(root, Point(p), FnWidth).root)) > Len(Content)

(* ---- the frame of insert ---- *)

RECURSIVE AddsLeaf(_, _, _, _)
\* the optional subtree u is the optional subtree t with one absent child
\* replaced by the leaf (seg, v): every node of t is in u at its place, with
\* its segment, its value and the children it had
AddsLeaf(t, u, seg, v) ==
    IF t = None THEN u = Some(Leaf(seg, v))
    ELSE /\ u # None
         /\ u[1].segment = t[1].segment
         /\ u[1].value = t[1].value
         /\ \/ u[1].right = t[1].right /\ AddsLeaf(t[1].left, u[1].left, seg, v)
            \/ u[1].left = t[1].left /\ AddsLeaf(t[1].right, u[1].right, seg, v)

\* the sequence d is the sequence c with the entry e added at one position
AddsEntry(c, d, e) ==
    \E i \in 0 .. Len(c) : d = SubSeq(c, 1, i) \o << e >> \o SubSeq(c, i + 1, Len(c))

\* C18: an insert(segment, value) that does not panic adds exactly one node,
\* as a leaf; every node stored before keeps its place, its segment, its value
\* and its children, and the traversal content is the content before with
\* (segment, value) added at its ordered position.
C18_InsertFrame ==
    \A seg \in Segments, v \in Values :
        LET r == MapInsert(root, seg, v)
        IN ~r.panicked =>
              /\ Size(r.root) = Size(root) + 1
              /\ AddsLeaf(root, r.root, seg, v)
              /\ AddsEntry(Content, MapIntoIter(r.root), << seg, v >>)
              /\ Ordered(MapIntoIter(r.root))

\* a root with one child, where some insert attaches its leaf below the
\* child and another attaches it to the root
C18_Witness ==
    /\ Size(root) = 2
    /\ \E seg \in Segments :
          LET r == MapInsert(root, seg, 0)
          IN ~r.panicked /\ (r.root[1].left = None \/ r.root[1].right = None)
    /\ \E seg \in Segments :
          LET r == MapInsert(root, seg, 0)
          IN ~r.panicked /\ r.root[1].left # None /\ r.root[1].right # None

(* ---- traversal variants and span ---- *)

RECURSIVE InOrder(_)
\* the entries of an optional subtree: left subtree, node, right subtree
InOrder(t) ==
    IF t = None THEN << >>
    ELSE InOrder(t[1].left) \o << << t[1].segment, t[1].value >> >> \o InOrder(t[1].right)

\* C19: iter(), iter_mut() and into_iter() yield the same sequence, every
\* stored entry once in the order left subtree, node, right subtree, and then
\* end (a further next yields nothing); segments(), values() and values_mut()
\* yield the segments and the values of that sequence, in the same order.
C19_TraversalsAgree ==
    /\ MapIntoIter(root) = InOrder(root)
    /\ IterCollect(root, MapIter(root)) = InOrder(root)
    /\ IterMutCollect(root, MapIterMut(root)) = InOrder(root)
    /\ Len(InOrder(root)) = Size(root)
    /\ MapSegments(root) = [i \in DOMAIN InOrder(root) |-> InOrder(root)[i][1]]
    /\ MapValues(root) = [i \in DOMAIN InOrder(root) |-> InOrder(root)[i][2]]
    /\ MapValuesMut(root) = [i \in DOMAIN InOrder(root) |-> InOrder(root)[i][2]]
    /\ IterNext(root, [current |-> None, stack |-> << >>]).item = None
    /\ IterMutNext(root, [current |-> None, stack |-> << >>]).item = None
    /\ IntoIterNext(None, << >>).item = None

\* a root with two children, one of them a marker, and two different values
C19_Witness ==
    /\ Size(root) = 3
    /\ root[1].left # None
    /\ root[1].right # None
    /\ \E i \in DOMAIN Content : IsEmptySegment(Content[i][1])
    /\ \E i, j \in DOMAIN Content : Content[i][2] # Content[j][2]
    /\ Len(MapSegments(root)) = 3

\* C20: span() is None exactly when the map is empty; otherwise it is the
\* segment from the start of the first entry to the end of the last entry of
\* the traversal, which are the least start and the greatest end of the
\* stored segments, whatever the tree shape and whether or not the stored
\* segments leave gaps.
C20_Span ==
    /\ (MapSpan(root) = None) <=> MapIsEmpty(root)
    /\ MapIsEmpty(root) <=> (Content = << >>)
    /\ root # None =>
          /\ MapSpan(root) = Some(Segment(Content[1][1].start, Content[Len(Content)][1].end))
          /\ \A i \in DOMAIN Content :
                /\ MapSpan(root)[1].start <= Content[i][1].start
                /\ Content[i][1].end <= MapSpan(root)[1].end
          /\ \A m \in Rebuilt(Content) : MapSpan(m) = MapSpan(root)

\* three stored entries with a gap between two of them, the root neither the
\* first nor the last of them
C20_Witness ==
    /\ Len(Content) = 3
    /\ root[1].left # None
    /\ root[1].right # None
    /\ \E i \in 1 .. 2 : Content[i][1].end < Content[i + 1][1].start
    /\ MapSpan(root) # Some(root[1].segment)
    /\ ~Covered(Content, MapSpan(root)[1])

(* ---- bulk load ---- *)

\* the (segment, value) pairs a caller can pass
Pairs == Segments \X Values

\* C21: extend(pairs) leaves the map as the inserts of the pairs, one after
\* the other in the given order, leave it, and panics where they do: at the
\* first pair that conflicts with an entry stored before the call or by an
\* earlier pair, with the earlier pairs stored and no later one; the
\* segment_map! literal is the same bulk load into a new map.
C21_ExtendIsInserts ==
    /\ MapExtend(root, << >>) = [root |-> root, panicked |-> FALSE]
    /\ \A a \in Pairs :
          LET first == MapInsert(root, a[1], a[2])
          IN /\ MapExtend(root, << a >>) = first
             /\ \A b \in Pairs :
                   LET second == MapInsert(first.root, b[1], b[2])
                       both == MapExtend(root, << a, b >>)
                   IN /\ both = IF first.panicked THEN first ELSE second
                      /\ both.panicked <=>
                            (Conflicts(a[1], Content)
                               \/ Conflicts(b[1], Content \o << a >>))
                      /\ Conflicts(a[1], Content) => both.root = root
                      /\ (~Conflicts(a[1], Content) /\ both.panicked) =>
                            AddsEntry(Content, MapIntoIter(both.root), a)
                      /\ SegmentMapMacro(<< a, b >>) = MapExtend(MapNew, << a, b >>)

\* a map of one entry where some bulk load of two pairs stores the first and
\* fails at the second, and another stores both
C21_Witness ==
    /\ Len(Content) = 1
    /\ \E a \in Pairs, b \in Pairs :
          LET r == MapExtend(root, << a, b >>) IN r.panicked /\ Size(r.root) = 2
    /\ \E a \in Pairs, b \in Pairs :
          LET r == MapExtend(root, << a, b >>) IN ~r.panicked /\ Size(r.root) = 3

(* ---- update and update_entry ---- *)

\* the closure f yields the same for every sub-range: it is
\* |_sub_segment, old| g(old) for a closure g of update
IgnoresSegment(f) ==
    \A seg1 \in Segments, seg2 \in Segments, old \in { None } \cup { Some(x) : x \in Values } :
        Apply(f, seg1, old) = Apply(f, seg2, old)

\* the closures of update_entry that ignore the sub-range
SegmentBlind == { f \in EntryFns : IgnoresSegment(f) }

\* the old values a sequence of closure calls passed, in order
OldValues(q) == [i \in DOMAIN q |-> q[i].old]

Consumed(seg, T) ==
    \/ Intersects(seg, T) /\ T.start <= seg.start /\ seg.end <= T.end
    \/ seg = T

\* C23: is_empty() is true exactly when the traversal yields nothing and the
\* tree has no node; it is true for new() and after clear(), false after
\* every insert, and true after a remove(T), or an update(T, |_| None), of a
\* target that leaves nothing of any stored entry.
C23_Emptiness ==
    /\ MapIsEmpty(root) <=> (Content = << >>)
    /\ MapIsEmpty(root) <=> (Size(root) = 0)
    /\ MapIsEmpty(MapNew)
    /\ MapIsEmpty(MapClear(root))
    /\ \A seg \in Segments, v \in Values :
          LET r == MapInsert(root, seg, v)
          IN ~MapIsEmpty(r.root) /\ (~r.panicked => MapIntoIter(r.root) # << >>)
    /\ \A T \in Segments :
          LET removed == MapRemove(root, T)
              updated == MapUpdate(root, T, FnNone).root
          IN /\ MapIsEmpty(removed) <=> (MapIntoIter(removed) = << >>)
             /\ MapIsEmpty(updated) <=> (MapIntoIter(updated) = << >>)
             /\ (\A i \in DOMAIN Content : Consumed(Content[i][1], T)) =>
                   (MapIsEmpty(removed) /\ MapIsEmpty(updated))

\* a map of two or more entries that one remove empties and another does not
C23_Witness ==
    /\ Len(Content) >= 2
    /\ ~MapIsEmpty(root)
    /\ \E T \in Segments : MapIsEmpty(MapRemove(root, T))
    /\ \E T \in Segments :
          ~MapIsEmpty(MapRemove(root, T)) /\ MapIntoIter(MapRemove(root, T)) # Content

(* ---- the search tree ---- *)

RECURSIVE IsSearchTree(_)
\* in the optional subtree t, for every node with segment [s,e) every segment
\* of its left subtree has end <= s and every segment of its right subtree
\* has start >= e
IsSearchTree(t) ==
    \/ t = None
    \/ /\ \A i \in DOMAIN InOrder(t[1].left) :
              InOrder(t[1].left)[i][1].end <= t[1].segment.start
       /\ \A i \in DOMAIN InOrder(t[1].right) :
              InOrder(t[1].right)[i][1].start >= t[1].segment.end
       /\ IsSearchTree(t[1].left)
       /\ IsSearchTree(t[1].right)

\* C24: in every reachable state the tree is a binary search tree on the
\* segments, and so is the tree every insert, remove, update and update_entry
\* yields from it.
C24_SearchTree ==
    /\ IsSearchTree(root)
    /\ \A seg \in Segments, v \in Values : IsSearchTree(MapInsert(root, seg, v).root)
    /\ \A T \in Segments :
          /\ IsSearchTree(MapRemove(root, T))
          /\ \A g \in ValueFns : IsSearchTree(MapUpdate(root, T, g).root)
          /\ \A f \in EntryFns : IsSearchTree(MapUpdateEntry(root, T, f).root)

\* a root with two children where some remove takes away the root's entry
\* and joins the two children, and some update cuts the root's entry
C24_Witness ==
    /\ Size(root) = 3
    /\ root[1].left # None
    /\ root[1].right # None
    /\ \E T \in WideSegments :
          /\ MapIntoIter(MapRemove(root, T))
                = InOrder(root[1].left) \o InOrder(root[1].right)
    /\ \E T \in Segments : Size(MapUpdate(root, T, FnId).root) > 3

(* ---- zero-width targets on stored entries ---- *)

\* C25: remove([p,p)) with p strictly inside a stored segment [s,e)->v
\* replaces that entry by [s,p)->v and [p,e)->v and leaves every other entry
\* unchanged: one entry more, no marker at p, the value of every key as before.
C25_ZeroWidthRemoveSplits ==
    \A p \in Keys :
        StrictlyInside(Content, p) =>
            LET after == MapRemove(root, Point(p))
            IN /\ MapIntoIter(after) = MarkerInserted(Content, p, None)
               /\ Len(MapIntoIter(after)) = Len(Content) + 1
               /\ ~MarkerAt(MapIntoIter(after), p)
               /\ Mapping(after) = Mapping(root)
               /\ \E i \in DOMAIN MapIntoIter(after) :
                     /\ i < Len(MapIntoIter(after))
                     /\ MapIntoIter(after)[i][1].end = p
                     /\ MapIntoIter(after)[i + 1][1].start = p
                     /\ MapIntoIter(after)[i][2] = MapIntoIter(after)[i + 1][2]

\* two stored entries, the second not at the root, with a key strictly
\* inside the second
C25_Witness ==
    /\ Len(Content) = 2
    /\ root[1].segment = Content[1][1]
    /\ \E p \in Keys :
          /\ Content[2][1].start < p /\ p < Content[2][1].end
          /\ Len(MapIntoIter(MapRemove(root, Point(p)))) = 3

\* the sequence c without its i-th entry
Without(c, i) == SubSeq(c, 1, i - 1) \o SubSeq(c, i + 1, Len(c))

\* C26: when a marker [p,p)->v is stored, remove([p,p)) deletes exactly that
\* marker, and update([p,p), g) calls g once, with Some(v), and replaces the
\* marker by [p,p)->g(Some(v)) (deletes it when g yields nothing) without
\* adding a second marker; every other entry is unchanged.
C26_MarkerCovered ==
    \A i \in DOMAIN Content :
        IsEmptySegment(Content[i][1]) =>
            LET T == Content[i][1]
                v == Content[i][2]
            IN /\ MapIntoIter(MapRemove(root, T)) = Without(Content, i)
               /\ \A g \in ValueFns :
                     LET r == MapUpdate(root, T, g)
                         x == Apply(g, T, Some(v))
                     IN /\ r.calls = << Call(T, Some(v)) >>
                        /\ ~r.panicked
                        /\ MapIntoIter(r.root)
                              = IF x = None THEN Without(Content, i)
                                ELSE [Content EXCEPT ![i] = << T, x[1] >>]

\* a marker stored between a segment ending at it and a segment starting at
\* it, the marker not at the root, that some update gives another value
C26_Witness ==
    /\ Len(Content) = 3
    /\ IsEmptySegment(Content[2][1])
    /\ Content[1][1].end = Content[2][1].start
    /\ Content[3][1].start = Content[2][1].start
    /\ root[1].segment # Content[2][1]
    /\ MapIntoIter(MapUpdate(root, Content[2][1], FnSucc).root) # Content
    /\ Len(MapIntoIter(MapUpdate(root, Content[2][1], FnSucc).root)) = 3

(* ---- join ---- *)

\* C27: for every way of cutting the content in two, every tree L holding the
\* first part and every tree R holding the second, join(L, R) is a search
\* tree whose entries are those of L followed by those of R; and a remove of
\* exactly the root's segment yields a search tree holding the entries of the
\* left child followed by those of the right child, one node fewer.
C27_Join ==
    /\ \A k \in 0 .. Len(Content) :
          \A l \in Rebuilt(SubSeq(Content, 1, k)), r \in Rebuilt(SubSeq(Content, k + 1, Len(Content))) :
              /\ IsSearchTree(l) /\ IsSearchTree(r)
              /\ IsSearchTree(Join(l, r))
              /\ InOrder(Join(l, r)) = InOrder(l) \o InOrder(r)
              /\ Size(Join(l, r)) = Size(l) + Size(r)
    /\ root # None =>
          LET after == MapRemove(root, root[1].segment)
          IN /\ IsSearchTree(after)
             /\ MapIntoIter(after) = InOrder(root[1].left) \o InOrder(root[1].right)
             /\ InOrder(Join(root[1].left, root[1].right)) = MapIntoIter(after)
             /\ Size(after) = Size(root) - 1

\* a root holding a non-degenerate segment with two children: the remove of
\* its segment joins two non-empty subtrees
C27_Witness ==
    /\ Size(root) = 3
    /\ root[1].left # None
    /\ root[1].right # None
    /\ ~IsEmptySegment(root[1].segment)
    /\ Size(MapRemove(root, root[1].segment)) = 2
    /\ Cardinality(Rebuilt(SubSeq(Content, 1, 2))) = 2

(* ---- pointwise semantics ---- *)

\* C28: for every target T, closure g of update and key k, get(k) after
\* update(T, g) is g(get(k) before) when k lies in T and get(k) before
\* otherwise; get(k) after remove(T) is nothing when k lies in T and get(k)
\* before otherwise.
C28_Pointwise ==
    \A T \in Segments :
        /\ \A g \in ValueFns :
              LET after == MapUpdate(root, T, g).root
              IN \A k \in Keys :
                    MapGet(after, k) = IF SegmentContains(T, k)
                                       THEN Apply(g, T, MapGet(root, k))
                                       ELSE MapGet(root, k)
        /\ LET after == MapRemove(root, T)
           IN \A k \in Keys :
                 MapGet(after, k) = IF SegmentContains(T, k) THEN None ELSE MapGet(root, k)

\* two stored entries with a gap between them and a target that holds a key
\* of the first entry and a key of the gap and leaves a key of the first
\* entry and the second entry outside
C28_Witness ==
    /\ Len(Content) = 2
    /\ Content[1][1].end < Content[2][1].start
    /\ \E T \in WideSegments :
          /\ Content[1][1].start < T.start /\ T.start < Content[1][1].end
          /\ Content[1][1].end < T.end /\ T.end <= Content[2][1].start
          /\ MapGet(MapUpdate(root, T, FnSucc).root, T.start) # MapGet(root, T.start)
          /\ MapGet(MapUpdate(root, T, FnSucc).root, T.end - 1) = Some(0)
          /\ MapGet(root, T.end - 1) = None

(* ---- update on the empty map ---- *)

\* what update / update_entry must yield on the empty map for target T and
\* closure f: one call with no prior value, and the single entry T->x when f
\* yields x, no entry when it yields nothing
OnEmpty(r, T, f) ==
    /\ r.calls = << Call(T, None) >>
    /\ ~r.panicked
    /\ MapIntoIter(r.root)
          = IF Apply(f, T, None) = None THEN << >> ELSE << << T, Apply(f, T, None)[1] >> >>
    /\ MapIsEmpty(r.root) <=> (Apply(f, T, None) = None)

\* C29: on a map with no root, update(T, f) and update_entry(T, f) call f
\* once, with no prior value (and the whole target), and leave the single
\* entry T->x when f yields x, also for a zero-width T, and the empty map
\* when f yields nothing.
C29_UpdateOnEmpty ==
    root = None =>
        \A T \in Segments :
            /\ \A g \in ValueFns : OnEmpty(MapUpdate(root, T, g), T, g)
            /\ \A f \in EntryFns : OnEmpty(MapUpdateEntry(root, T, f), T, f)

\* the map an update of a zero-width target has just made from the empty
\* map: the single marker, holding what the closure yields for no prior value
C29_Witness ==
    /\ Size(root) = 1
    /\ IsEmptySegment(root[1].segment)
    /\ root = MapUpdate(MapNew, root[1].segment, FnSucc).root
    /\ root = MapUpdateEntry(MapNew, root[1].segment, FnWidth).root
    /\ MapUpdate(MapNew, root[1].segment, FnId).root = None

(* ---- the lookups ---- *)

====
